---- MODULE Spec2Model ----
(***************************************************************************)
(* A model of the CalorieBuddy backend (src/backend/server.py): the        *)
(* nutrition calculators, the extraction of a JSON object from the text    *)
(* the AI provider answers, the three document collections (users,         *)
(* food_entries, meal_plans) and the request handlers that read and write  *)
(* them.                                                                   *)
(*                                                                         *)
(* Numbers.  The code computes in binary floating point; the model         *)
(* computes in exact fixed point.  Weights and heights are whole kg / cm,  *)
(* a basal metabolic rate is carried in hundredths of a kcal and a daily   *)
(* calorie target in units of 1/100000 kcal (hundredths times the activity *)
(* factor in thousandths).  Nutrient amounts of food entries are whole     *)
(* numbers.                                                                *)
(*                                                                         *)
(* Text.  A text is a sequence of tokens, not of characters: a token is a  *)
(* brace, a colon, a comma, a blank, a JSON string literal, a JSON number, *)
(* the literal null, or a word of prose.  JSON arrays and booleans are     *)
(* left out of the alphabet.                                               *)
(***************************************************************************)
EXTENDS Integers, Sequences, FiniteSets, TLC

VARIABLES
    users,          \* db.users: sequence of profile documents
    food_entries,   \* db.food_entries: sequence of food entry documents
    meal_plans,     \* db.meal_plans: sequence of meal plan documents
    pending,        \* update_user requests between update_one and find_one
    resp,           \* the response to the request handled last
    today,          \* the server's calendar day (date.today())
    norm_text,      \* the provider's answer handed to the extraction step
    norm_result,    \* what the extraction step returned for norm_text
    calc_args,      \* arguments of the nutrition calculators
    calc_result,    \* what the calculators returned for calc_args
    agg_args,       \* a profile and the entries a daily-summary query matched
    agg_result      \* what the summary computation made of agg_args

vars == <<users, food_entries, meal_plans, pending, resp, today,
          norm_text, norm_result, calc_args, calc_result, agg_args, agg_result>>

\* the variables of the API, and those of the functions studied on their own
apiVars == <<users, food_entries, meal_plans, pending, resp, today>>
fnVars == <<norm_text, norm_result, calc_args, calc_result, agg_args, agg_result>>

(***************************************************************************)
(* Tokens and Python values                                                *)
(***************************************************************************)

\* A token: t is its class, s its text (string literals, words, punctuation),
\* n its value (numbers).
Tok(t, s, n) == [t |-> t, s |-> s, n |-> n]

LBrace == Tok("punct", "{", 0)
RBrace == Tok("punct", "}", 0)
Colon  == Tok("punct", ":", 0)
Comma  == Tok("punct", ",", 0)
Blank  == Tok("ws", " ", 0)
Null   == Tok("null", "null", 0)
Str(s) == Tok("str", s, 0)
Num(n) == Tok("num", "", n)
Word(s) == Tok("word", s, 0)

\* A Python value as json.loads or a dict literal produces it: a number, a
\* string, None, or a nested dict (carried as the tokens it was written with).
PyNum(n)  == [t |-> "num",  s |-> "", n |-> n, d |-> << >>]
PyStr(s)  == [t |-> "str",  s |-> s,  n |-> 0, d |-> << >>]
\* a number that is not whole (the confidence 0.5), carried by its numeral
PyDecimal(numeral) == [t |-> "num", s |-> numeral, n |-> 0, d |-> << >>]
PyNone    == [t |-> "none", s |-> "", n |-> 0, d |-> << >>]
PyDict(note, toks) == [t |-> "dict", s |-> note, n |-> 0, d |-> toks]

\* dict.get(key, default)
Get(dict, key, default) == IF key \in DOMAIN dict THEN dict[key] ELSE default

\* dict with dict[key] = val (a later duplicate key replaces an earlier one)
Put(dict, key, val) ==
    [k \in (DOMAIN dict) \cup {key} |-> IF k = key THEN val ELSE dict[k]]

EmptyDict == [k \in {} |-> PyNone]

(***************************************************************************)
(* Nutrition calculators (lines 104-128)                                   *)
(***************************************************************************)

\* a string the code inspects by character is a sequence of characters
Male   == <<"m", "a", "l", "e">>
Female == <<"f", "e", "m", "a", "l", "e">>

LowerChar(c) ==
    CASE c = "M" -> "m" [] c = "A" -> "a" [] c = "L" -> "l" [] c = "E" -> "e"
      [] c = "F" -> "f" [] c = "O" -> "o" [] c = "T" -> "t" [] c = "H" -> "h"
      [] c = "R" -> "r" [] OTHER -> c

\* str.lower()
Lower(str) == [i \in 1..Len(str) |-> LowerChar(str[i])]

\* calculate_bmr comparing the gender as it is written
calculate_bmr_case_sensitive(weight, height, age, gender) ==
    IF gender = Male
    THEN 1000 * weight + 625 * height - 500 * age + 500
    ELSE 1000 * weight + 625 * height - 500 * age - 16100

\* calculate_bmr, in hundredths of a kcal:
\* 10 * weight + 6.25 * height - 5 * age + 5 (male) or - 161 (any other gender)
calculate_bmr(weight, height, age, gender) ==
    IF Lower(gender) = Male
    THEN 1000 * weight + 625 * height - 500 * age + 500
    ELSE 1000 * weight + 625 * height - 500 * age - 16100

\* the activity factors, in thousandths
activity_multipliers ==
    [sedentary |-> 1200, lightly_active |-> 1375, moderately_active |-> 1550,
     very_active |-> 1725, extra_active |-> 1900]

\* the factor of an activity level that is not in the table (1.2)
DefaultMultiplier == 1200

\* the deficit or surplus of a goal (500 kcal), in units of 1/100000 kcal
GoalAdjustment == 50000000

\* calculate_daily_calories applying the deficit to every goal but gain_weight
calculate_daily_calories_always_deficit(bmr, activity_level, goal) ==
    LET tdee == bmr * Get(activity_multipliers, activity_level, DefaultMultiplier)
    IN  IF goal = "gain_weight" THEN tdee + GoalAdjustment ELSE tdee - GoalAdjustment

\* calculate_daily_calories: bmr in hundredths, the result in 1/100000 kcal
calculate_daily_calories(bmr, activity_level, goal) ==
    LET tdee == bmr * Get(activity_multipliers, activity_level, DefaultMultiplier)
    IN  IF goal = "lose_weight" THEN tdee - GoalAdjustment
        ELSE IF goal = "gain_weight" THEN tdee + GoalAdjustment
        ELSE tdee


(***************************************************************************)
(* str.strip, str.find, str.rfind and slicing (0-based, as in Python)      *)
(***************************************************************************)

\* str.find(ch): index of the first occurrence, -1 when there is none
Find(text, tok) ==
    IF \E i \in 1..Len(text) : text[i] = tok
    THEN (CHOOSE i \in 1..Len(text) :
            /\ text[i] = tok
            /\ \A j \in 1..(i - 1) : text[j] # tok) - 1
    ELSE -1

\* str.rfind(ch): index of the last occurrence, -1 when there is none
RFind(text, tok) ==
    IF \E i \in 1..Len(text) : text[i] = tok
    THEN (CHOOSE i \in 1..Len(text) :
            /\ text[i] = tok
            /\ \A j \in (i + 1)..Len(text) : text[j] # tok) - 1
    ELSE -1

\* text[a:b] for a >= 0 and b >= 0: empty when b <= a
PySlice(text, a, b) ==
    LET hi == IF b > Len(text) THEN Len(text) ELSE b
    IN  IF a >= hi THEN << >> ELSE SubSeq(text, a + 1, hi)

\* str.strip(): without leading and trailing blanks
Strip(text) ==
    IF \A i \in 1..Len(text) : text[i].t = "ws" THEN << >>
    ELSE LET first == CHOOSE i \in 1..Len(text) :
                        /\ text[i].t # "ws"
                        /\ \A j \in 1..(i - 1) : text[j].t = "ws"
             last  == CHOOSE i \in 1..Len(text) :
                        /\ text[i].t # "ws"
                        /\ \A j \in (i + 1)..Len(text) : text[j].t = "ws"
         IN  SubSeq(text, first, last)

(***************************************************************************)
(* json.loads, restricted to objects, strings, numbers and null            *)
(***************************************************************************)

\* the first position at or after i that holds no blank
RECURSIVE SkipWs(_, _)
SkipWs(s, i) ==
    IF i <= Len(s) /\ s[i].t = "ws" THEN SkipWs(s, i + 1) ELSE i

ParseFail == [ok |-> FALSE, next |-> 0, val |-> PyNone, obj |-> EmptyDict]

RECURSIVE ParseValue(_, _)
RECURSIVE ParseMembers(_, _, _)

\* the members of an object from position i (the position of a key), acc the
\* pairs read so far; ends after the closing brace
ParseMembers(s, i, acc) ==
    LET k == SkipWs(s, i)
        c == SkipWs(s, k + 1)
        v == ParseValue(s, c + 1)
        e == SkipWs(s, v.next)
    IN  IF k > Len(s) \/ s[k].t # "str" THEN ParseFail
        ELSE IF c > Len(s) \/ s[c] # Colon THEN ParseFail
        ELSE IF ~v.ok THEN ParseFail
        ELSE IF e > Len(s) THEN ParseFail
        ELSE IF s[e] = RBrace
             THEN [ok |-> TRUE, next |-> e + 1, val |-> PyNone,
                   obj |-> Put(acc, s[k].s, v.val)]
        ELSE IF s[e] = Comma
             THEN ParseMembers(s, e + 1, Put(acc, s[k].s, v.val))
        ELSE ParseFail

\* one JSON value from position i; for an object, obj is its mapping and val
\* carries the tokens it was written with
ParseValue(s, i) ==
    LET p == SkipWs(s, i)
    IN  IF p > Len(s) THEN ParseFail
        ELSE IF s[p].t = "num"
             THEN [ok |-> TRUE, next |-> p + 1, val |-> PyNum(s[p].n), obj |-> EmptyDict]
        ELSE IF s[p].t = "str"
             THEN [ok |-> TRUE, next |-> p + 1, val |-> PyStr(s[p].s), obj |-> EmptyDict]
        ELSE IF s[p].t = "null"
             THEN [ok |-> TRUE, next |-> p + 1, val |-> PyNone, obj |-> EmptyDict]
        ELSE IF s[p] = LBrace
             THEN LET q == SkipWs(s, p + 1)
                  IN  IF q > Len(s) THEN ParseFail
                      ELSE IF s[q] = RBrace
                           THEN [ok |-> TRUE, next |-> q + 1,
                                 val |-> PyDict("", SubSeq(s, p, q)),
                                 obj |-> EmptyDict]
                      ELSE LET m == ParseMembers(s, q, EmptyDict)
                           IN  IF ~m.ok THEN ParseFail
                               ELSE [m EXCEPT !.val =
                                        PyDict("", SubSeq(s, p, m.next - 1))]
        ELSE ParseFail

\* json.loads(json_str): ok is FALSE where the code gets a JSONDecodeError
\* (no value, a malformed value, or data after the value)
JsonLoads(s) ==
    LET v == ParseValue(s, 1)
    IN  IF v.ok /\ SkipWs(s, v.next) = Len(s) + 1 THEN v ELSE ParseFail

(***************************************************************************)
(* analyze_food_image: the extraction of the JSON object (lines 182-232)   *)
(***************************************************************************)

\* the record returned when json.loads raises JSONDecodeError (lines 199-214)
FallbackUnparsed(response_text) ==
    [food_name |-> PyStr("Unknown food item"),
     calories |-> PyNum(200), protein |-> PyNum(10), carbs |-> PyNum(20),
     fat |-> PyNum(8), fiber |-> PyNum(3), sodium |-> PyNum(300),
     sugar |-> PyNum(5), serving_size |-> PyStr("1 serving"),
     confidence |-> PyDecimal("0.5"),
     detailed_breakdown |->
        PyDict("Could not parse structured data, using defaults", response_text)]

\* the record returned when no opening brace is found (lines 217-232)
FallbackNoJson(response_text) ==
    [food_name |-> PyStr("Food item from image"),
     calories |-> PyNum(200), protein |-> PyNum(10), carbs |-> PyNum(20),
     fat |-> PyNum(8), fiber |-> PyNum(3), sodium |-> PyNum(300),
     sugar |-> PyNum(5), serving_size |-> PyStr("1 serving"),
     confidence |-> PyDecimal("0.5"),
     detailed_breakdown |->
        PyDict("Structured analysis available in text format", response_text)]

\* json_str = response_text[start_idx:end_idx] (lines 189-193)
JsonSlice(response_text) ==
    PySlice(response_text, Find(response_text, LBrace), RFind(response_text, RBrace) + 1)

\* ExtractAnalysis with the JSONDecodeError left uncaught
ExtractAnalysisUncaught(response) ==
    LET response_text == Strip(response)
        start_idx == Find(response_text, LBrace)
        end_idx   == RFind(response_text, RBrace) + 1
        parsed    == JsonLoads(PySlice(response_text, start_idx, end_idx))
    IN  IF start_idx # -1 /\ end_idx # -1
        THEN IF parsed.ok
             THEN [raised |-> FALSE, value |-> parsed.obj]
             ELSE [raised |-> TRUE, value |-> EmptyDict]
        ELSE [raised |-> FALSE, value |-> FallbackNoJson(response_text)]

\* ExtractAnalysis slicing from the first opening brace to the first closing one
ExtractAnalysisFirstClose(response) ==
    LET response_text == Strip(response)
        start_idx == Find(response_text, LBrace)
        end_idx   == Find(response_text, RBrace) + 1
        parsed    == JsonLoads(PySlice(response_text, start_idx, end_idx))
    IN  IF start_idx # -1 /\ end_idx # -1
        THEN IF parsed.ok
             THEN [raised |-> FALSE, value |-> parsed.obj]
             ELSE [raised |-> FALSE, value |-> FallbackUnparsed(response_text)]
        ELSE [raised |-> FALSE, value |-> FallbackNoJson(response_text)]

\* lines 183-232: what analyze_food_image makes of the provider's answer.
\* raised: an exception left the step (none does: JSONDecodeError is caught)
ExtractAnalysis(response) ==
    LET response_text == Strip(response)
        start_idx == Find(response_text, LBrace)
        end_idx   == RFind(response_text, RBrace) + 1
        parsed    == JsonLoads(PySlice(response_text, start_idx, end_idx))
    IN  IF start_idx # -1 /\ end_idx # -1
        THEN IF parsed.ok
             THEN [raised |-> FALSE, value |-> parsed.obj]
             ELSE [raised |-> FALSE, value |-> FallbackUnparsed(response_text)]
        ELSE [raised |-> FALSE, value |-> FallbackNoJson(response_text)]

(***************************************************************************)
(* Documents: what the pydantic models hold and what .dict() stores        *)
(***************************************************************************)

\* Optional[...] fields: None is the empty sequence, a value x is <<x>>
None == << >>
Some(x) == <<x>>

\* a calendar day is a day number; date.isoformat() gives the string for it
IsoFormat(day) == [iso |-> day]

\* base64.b64encode(image_data).decode('utf-8')
B64Encode(image_data) == [b64 |-> image_data]

\* uuid.uuid4() for a new document of a collection: an id no document has
NewId(collection) == Len(collection) + 1

\* lines 244-249 storing the target as 0 instead of the computed value
NewUserStaleTarget(id, user_data) ==
    [id |-> id, name |-> user_data.name, email |-> user_data.email,
     age |-> user_data.age, gender |-> user_data.gender,
     height |-> user_data.height, weight |-> user_data.weight,
     activity_level |-> user_data.activity_level, goal |-> user_data.goal,
     goal_weight |-> user_data.goal_weight,
     daily_calorie_target |-> 0]

\* lines 244-249: User(**user_dict) with the computed target, as stored by
\* insert_one(user_obj.dict()) (created_at, a clock reading, is left out)
NewUser(id, user_data) ==
    [id |-> id, name |-> user_data.name, email |-> user_data.email,
     age |-> user_data.age, gender |-> user_data.gender,
     height |-> user_data.height, weight |-> user_data.weight,
     activity_level |-> user_data.activity_level, goal |-> user_data.goal,
     goal_weight |-> user_data.goal_weight,
     daily_calorie_target |->
        calculate_daily_calories(
            calculate_bmr(user_data.weight, user_data.height, user_data.age,
                          user_data.gender),
            user_data.activity_level, user_data.goal)]

\* lines 274-283 leaving the stored target as it was
SetUserKeepTarget(doc, user_data) ==
    [doc EXCEPT !.name = user_data.name, !.email = user_data.email,
                !.age = user_data.age, !.gender = user_data.gender,
                !.height = user_data.height, !.weight = user_data.weight,
                !.activity_level = user_data.activity_level,
                !.goal = user_data.goal, !.goal_weight = user_data.goal_weight]

\* lines 274-283: the document after {"$set": user_dict}, user_dict being the
\* submitted attributes and the target computed from them
SetUser(doc, user_data) == NewUser(doc.id, user_data)

\* db.<collection>.find_one({"id": id}): the first such document, or none
HasId(collection, id) == \E i \in 1..Len(collection) : collection[i].id = id
FindOne(collection, id) ==
    collection[CHOOSE i \in 1..Len(collection) :
                  /\ collection[i].id = id
                  /\ \A j \in 1..(i - 1) : collection[j].id # id]

\* cursor.to_list(n): at most the first n documents
ToList(docs, n) == IF Len(docs) > n THEN SubSeq(docs, 1, n) ELSE docs

RECURSIVE Reverse(_)
Reverse(docs) ==
    IF docs = << >> THEN << >> ELSE Append(Reverse(Tail(docs)), Head(docs))

\* the length limits of the list endpoints
UserListLimit == 100
EntryListLimit == 100
PlanListLimit == 30

(***************************************************************************)
(* FoodEntry (lines 58-74) as analyze_food_from_image builds it (309-323)  *)
(***************************************************************************)

\* pydantic's validation of the fields taken from the analysis record:
\* food_name: str and calories: float are required, so None is refused;
\* the other nutrients are Optional[float], serving_size is Optional[str]
IsFloat(v) == v.t = "num"
IsOptFloat(v) == v.t \in {"num", "none"}
IsOptStr(v) == v.t \in {"str", "none"}

OptFloat(v) == IF v.t = "none" THEN None ELSE Some(v.n)
OptStr(v) == IF v.t = "none" THEN None ELSE Some(v.s)

\* the arguments analysis.get(key, default) hands to FoodEntry (lines 311-319)
EntryArgs(analysis) ==
    [food_name |-> Get(analysis, "food_name", PyStr("Unknown food")),
     calories |-> Get(analysis, "calories", PyNum(200)),
     protein |-> Get(analysis, "protein", PyNum(10)),
     carbs |-> Get(analysis, "carbs", PyNum(20)),
     fat |-> Get(analysis, "fat", PyNum(8)),
     fiber |-> Get(analysis, "fiber", PyNum(3)),
     sodium |-> Get(analysis, "sodium", PyNum(300)),
     sugar |-> Get(analysis, "sugar", PyNum(5)),
     serving_size |-> Get(analysis, "serving_size", PyStr("1 serving"))]

\* FoodEntry(...) raises no ValidationError
EntryArgsValid(a) ==
    /\ a.food_name.t = "str"
    /\ IsFloat(a.calories)
    /\ IsOptFloat(a.protein) /\ IsOptFloat(a.carbs) /\ IsOptFloat(a.fat)
    /\ IsOptFloat(a.fiber) /\ IsOptFloat(a.sodium) /\ IsOptFloat(a.sugar)
    /\ IsOptStr(a.serving_size)

\* food_entry.dict(): the document insert_one stores.  dict() names a field by
\* its attribute name, so the day is stored under entry_date (not under the
\* alias "date"), as the date object date.today() gave
FoodEntryDict(id, user_id, meal_type, image_base64, analysis, day) ==
    LET a == EntryArgs(analysis)
    IN  [id |-> id, user_id |-> user_id,
         food_name |-> a.food_name.s, calories |-> a.calories.n,
         protein |-> OptFloat(a.protein), carbs |-> OptFloat(a.carbs),
         fat |-> OptFloat(a.fat), fiber |-> OptFloat(a.fiber),
         sodium |-> OptFloat(a.sodium), sugar |-> OptFloat(a.sugar),
         serving_size |-> OptStr(a.serving_size),
         meal_type |-> meal_type, image_base64 |-> image_base64,
         analysis_details |-> analysis,
         entry_date |-> day]

(***************************************************************************)
(* Queries on food_entries and meal_plans                                  *)
(***************************************************************************)

\* a document satisfies {"date": date_filter}: it has a field "date" with that
\* value (a document without the field satisfies no such criterion)
MatchesDate(doc, date_filter) ==
    /\ "date" \in DOMAIN doc
    /\ doc["date"] = date_filter

\* find({"user_id": user_id, "date": date_filter}), in insertion order
RECURSIVE FindByUserAndDate(_, _, _)
FindByUserAndDate(docs, user_id, date_filter) ==
    IF docs = << >> THEN << >>
    ELSE IF Head(docs).user_id = user_id /\ MatchesDate(Head(docs), date_filter)
         THEN <<Head(docs)>> \o FindByUserAndDate(Tail(docs), user_id, date_filter)
         ELSE FindByUserAndDate(Tail(docs), user_id, date_filter)

\* find({"user_id": user_id}), in insertion order
RECURSIVE FindByUser(_, _)
FindByUser(docs, user_id) ==
    IF docs = << >> THEN << >>
    ELSE IF Head(docs).user_id = user_id
         THEN <<Head(docs)>> \o FindByUser(Tail(docs), user_id)
         ELSE FindByUser(Tail(docs), user_id)

(***************************************************************************)
(* get_daily_summary: totals and buckets (lines 373-409)                   *)
(***************************************************************************)

\* entry.get(field, 0): the stored value; None is a value like any other
EntryGet(entry, field) ==
    IF field \notin DOMAIN entry THEN Some(0)
    ELSE IF field = "calories" THEN Some(entry.calories)
    ELSE entry[field]

\* sum(entry.get(field, 0) for entry in entries): adding None to a number
\* raises TypeError
RECURSIVE SumField(_, _)
SumField(entries, field) ==
    IF entries = << >> THEN [raised |-> FALSE, total |-> 0]
    ELSE LET v == EntryGet(Head(entries), field)
             rest == SumField(Tail(entries), field)
         IN  IF v = None \/ rest.raised THEN [raised |-> TRUE, total |-> 0]
             ELSE [raised |-> FALSE, total |-> v[1] + rest.total]

\* lines 388-391, had an entry of an unknown meal slot been put with the snacks
BucketUnknownAsSnack(entries, slot) ==
    SelectSeq(entries,
              LAMBDA e : \/ e.meal_type = slot
                         \/ /\ slot = "snack"
                            /\ e.meal_type \notin {"breakfast", "lunch", "dinner",
                                                    "snack"})

\* the entries appended to meals[slot] (lines 388-391)
RECURSIVE Bucket(_, _)
Bucket(entries, slot) ==
    IF entries = << >> THEN << >>
    ELSE IF Head(entries).meal_type = slot
         THEN <<Head(entries)>> \o Bucket(Tail(entries), slot)
         ELSE Bucket(Tail(entries), slot)

Max(a, b) == IF a >= b THEN a ELSE b

\* the remaining calories without the floor at zero
RemainingUnclamped(target, consumed) == target - consumed * 100000

\* max(0, daily_calorie_target - total_calories) (line 405); target is in
\* units of 1/100000 kcal, consumed in kcal
Remaining(target, consumed) == Max(0, target - consumed * 100000)

\* lines 373-409 for the fetched user document and entries: the response body,
\* or raised when a sum meets None
Summarize(user, entries, date_filter) ==
    LET cal == SumField(entries, "calories")
        pro == SumField(entries, "protein")
        car == SumField(entries, "carbs")
        fat == SumField(entries, "fat")
        fib == SumField(entries, "fiber")
    IN  IF cal.raised \/ pro.raised \/ car.raised \/ fat.raised \/ fib.raised
        THEN [raised |-> TRUE, body |-> << >>]
        ELSE [raised |-> FALSE,
              body |->
                [date |-> date_filter,
                 user_id |-> user.id,
                 daily_target |-> user.daily_calorie_target,
                 consumed |-> [calories |-> cal.total, protein |-> pro.total,
                               carbs |-> car.total, fat |-> fat.total,
                               fiber |-> fib.total],
                 remaining |-> [calories |->
                                   Remaining(user.daily_calorie_target, cal.total)],
                 meals |-> [breakfast |-> Bucket(entries, "breakfast"),
                            lunch |-> Bucket(entries, "lunch"),
                            dinner |-> Bucket(entries, "dinner"),
                            snack |-> Bucket(entries, "snack")],
                 entries_count |-> Len(entries)]]

(***************************************************************************)
(* The requests a client sends                                             *)
(***************************************************************************)

MaxUsers == 1
MaxEntries == 1
MaxPlans == 2
MaxInflight == 2
MaxDay == 2

\* UserCreate payloads: the profile of the test suite, and a small old person
\* whose computed target is negative (no range is checked)
UserInputs ==
    { [name |-> "Sarah", email |-> "sarah@email", age |-> 28, gender |-> Female,
       height |-> 165, weight |-> 68, activity_level |-> "moderately_active",
       goal |-> "lose_weight", goal_weight |-> Some(63)],
      [name |-> "Ann", email |-> "ann@email", age |-> 80, gender |-> Female,
       height |-> 100, weight |-> 30, activity_level |-> "sedentary",
       goal |-> "lose_weight", goal_weight |-> None] }

\* the ids a request can name: those of the stored profiles and one that no
\* profile has
NoSuchId == MaxUsers + 1
RequestIds == {users[i].id : i \in 1..Len(users)} \cup {NoSuchId}

\* the declared content type of an upload: type and subtype, or None
ContentTypes == {<<"image", "jpeg">>, <<"text", "plain">>, None}

MealTypes == {"breakfast"}

ImageData == "jpeg-bytes"

\* what chat.send_message does: it raises, or it returns an answer
ProviderError == [ok |-> FALSE, text |-> << >>]
Answer(text) == [ok |-> TRUE, text |-> text]

\* prose around an object that has the calories only
PlainAnswer ==
    Answer(<<Word("Sure"), Blank, LBrace, Str("calories"), Colon, Num(300),
             RBrace, Blank, Word("Enjoy")>>)

FoodAnswers ==
    { PlainAnswer,
      \* an object whose protein is null
      Answer(<<LBrace, Str("food_name"), Colon, Str("pizza"), Comma,
               Str("calories"), Colon, Num(500), Comma,
               Str("protein"), Colon, Null, RBrace>>),
      \* an object whose calories are null
      Answer(<<LBrace, Str("calories"), Colon, Null, RBrace>>),
      \* an object cut short
      Answer(<<Word("Sure"), LBrace, Str("calories"), Colon>>) }

PlanAnswers ==
    { Answer(<<Word("Plan"), Blank, LBrace, Str("total_calories"), Colon, Num(1800),
               Comma, Str("nutritional_notes"), Colon, Str("balanced"), RBrace>>),
      Answer(<<Word("Sorry")>>) }

\* what happens at the provider during one request: the key is not configured
\* (the provider is not called), or the call raises, or it answers
NoKey == [key_set |-> FALSE, outcome |-> ProviderError]
WithKey(outcome) == [key_set |-> TRUE, outcome |-> outcome]

FoodProvider == {NoKey, WithKey(ProviderError)} \cup {WithKey(a) : a \in FoodAnswers}
PlanProvider == {NoKey, WithKey(ProviderError)} \cup {WithKey(a) : a \in PlanAnswers}

\* an upload and what happens at the provider during its request; the provider
\* is out of reach of an upload that is no image, and answers it (if asked)
\* or has no key
Uploads ==
    [content_type : {<<"image", "jpeg">>}, provider : FoodProvider]
    \cup [content_type : ContentTypes \ {<<"image", "jpeg">>},
          provider : {NoKey, WithKey(PlainAnswer)}]

\* date_filter / target_date query parameters
DateStrings == {IsoFormat(d) : d \in 1..MaxDay}
DateFilters == {None} \cup {Some(ds) : ds \in DateStrings}

Response(op, status, req, ai_calls, body) ==
    [op |-> op, status |-> status, req |-> req, ai_calls |-> ai_calls,
     body |-> body]

(***************************************************************************)
(* Handlers                                                                *)
(***************************************************************************)

\* POST /users (lines 239-254)
CreateUser(user_data) ==
    /\ Len(users) < MaxUsers
    /\ users' = Append(users, NewUser(NewId(users), user_data))
    /\ resp' = Response("create_user", 200, [user_data |-> user_data], 0,
                        NewUser(NewId(users), user_data))
    /\ UNCHANGED <<food_entries, meal_plans, pending, today, fnVars>>

\* GET /users/{user_id} (lines 256-262)
GetUser(user_id) ==
    /\ resp' = IF HasId(users, user_id)
               THEN Response("get_user", 200, [user_id |-> user_id], 0,
                             FindOne(users, user_id))
               ELSE Response("get_user", 404, [user_id |-> user_id], 0, << >>)
    /\ UNCHANGED <<users, food_entries, meal_plans, pending, today, fnVars>>

\* GET /users (lines 264-268)
GetAllUsers ==
    /\ resp' = Response("get_all_users", 200, << >>, 0, ToList(users, UserListLimit))
    /\ UNCHANGED <<users, food_entries, meal_plans, pending, today, fnVars>>

\* PUT /users/{user_id}, up to the answer of update_one (lines 270-286):
\* modified_count is 1 when a document has the id and $set changes it
UpdateUserWrite(user_id, user_data) ==
    /\ Cardinality(pending) < MaxInflight
    /\ LET found == HasId(users, user_id)
           modified == found /\ SetUser(FindOne(users, user_id), user_data)
                                   # FindOne(users, user_id)
       IN  IF modified
           THEN /\ users' = [i \in 1..Len(users) |->
                               IF users[i].id = user_id
                               THEN SetUser(users[i], user_data) ELSE users[i]]
                /\ pending' = pending \cup {[user_id |-> user_id, user_data |-> user_data]}
                /\ UNCHANGED resp
           ELSE /\ resp' = Response("update_user", 404,
                                    [user_id |-> user_id, user_data |-> user_data],
                                    0, << >>)
                /\ UNCHANGED <<users, pending>>
    /\ UNCHANGED <<food_entries, meal_plans, today, fnVars>>

\* PUT /users/{user_id}, from find_one to the response (lines 288-289)
UpdateUserRead(request) ==
    /\ request \in pending
    /\ pending' = pending \ {request}
    /\ resp' = Response("update_user", 200, request, 0,
                        FindOne(users, request.user_id))
    /\ UNCHANGED <<users, food_entries, meal_plans, today, fnVars>>

\* analyze_food_image, had it answered a failure of the provider with the
\* fallback record
AnalyzeFoodImageDegraded(key_set, outcome) ==
    IF ~key_set \/ ~outcome.ok
    THEN [raised |-> FALSE, ai_calls |-> IF key_set THEN 1 ELSE 0,
          value |-> FallbackNoJson(<< >>)]
    ELSE [raised |-> ExtractAnalysis(outcome.text).raised, ai_calls |-> 1,
          value |-> ExtractAnalysis(outcome.text).value]

\* analyze_food_image (lines 130-236): the provider is called when the key is
\* configured; every exception leaves as HTTPException(500)
AnalyzeFoodImage(key_set, outcome) ==
    IF ~key_set THEN [raised |-> TRUE, ai_calls |-> 0, value |-> EmptyDict]
    ELSE IF ~outcome.ok THEN [raised |-> TRUE, ai_calls |-> 1, value |-> EmptyDict]
    ELSE [raised |-> ExtractAnalysis(outcome.text).raised, ai_calls |-> 1,
          value |-> ExtractAnalysis(outcome.text).value]

\* POST /analyze-food (lines 291-335).  The handler's except clause catches
\* every exception raised in its body, the HTTPException(400) of line 297
\* included, and answers 500
AnalyzeFoodFromImage(content_type, user_id, meal_type, key_set, outcome) ==
    LET req == [content_type |-> content_type, user_id |-> user_id,
                meal_type |-> meal_type, key_set |-> key_set, outcome |-> outcome]
        image_base64 == B64Encode(ImageData)
        analysis == AnalyzeFoodImage(key_set, outcome)
        doc == FoodEntryDict(NewId(food_entries), user_id, meal_type,
                             image_base64, analysis.value, today)
        rejected == content_type = None \/ content_type[1] # "image"
        failed == analysis.raised \/ ~EntryArgsValid(EntryArgs(analysis.value))
    IN  /\ (~rejected /\ ~failed) => Len(food_entries) < MaxEntries
        /\ IF rejected
           THEN /\ resp' = Response("analyze_food", 500, req, 0, << >>)
                /\ UNCHANGED food_entries
           ELSE IF failed
           THEN /\ resp' = Response("analyze_food", 500, req, analysis.ai_calls, << >>)
                /\ UNCHANGED food_entries
           ELSE /\ food_entries' = Append(food_entries, doc)
                /\ resp' = Response("analyze_food", 200, req, analysis.ai_calls,
                                    [success |-> TRUE, food_entry |-> doc,
                                     analysis |-> analysis.value])
        /\ UNCHANGED <<users, meal_plans, pending, today, fnVars>>

\* GET /food-entries/{user_id} (lines 337-353): newest first
GetUserFoodEntries(user_id, date_filter) ==
    /\ resp' = Response("get_user_food_entries", 200,
                        [user_id |-> user_id, date_filter |-> date_filter], 0,
                        ToList(Reverse(
                            IF date_filter = None
                            THEN FindByUser(food_entries, user_id)
                            ELSE FindByUserAndDate(food_entries, user_id, date_filter[1])),
                          EntryListLimit))
    /\ UNCHANGED <<users, food_entries, meal_plans, pending, today, fnVars>>

\* GET /daily-summary/{user_id} (lines 355-412).  The except clause catches the
\* HTTPException(404) of line 365 and the TypeError of the sums, and answers 500
GetDailySummary(user_id, date_filter) ==
    LET date == IF date_filter = None THEN IsoFormat(today) ELSE date_filter[1]
        req == [user_id |-> user_id, date_filter |-> date_filter, date |-> date]
        entries == ToList(FindByUserAndDate(food_entries, user_id, date),
                          EntryListLimit)
    IN  /\ resp' =
              IF ~HasId(users, user_id)
              THEN Response("get_daily_summary", 500, req, 0, << >>)
              ELSE LET summary == Summarize(FindOne(users, user_id), entries, date)
                   IN  IF summary.raised
                       THEN Response("get_daily_summary", 500, req, 0, << >>)
                       ELSE Response("get_daily_summary", 200, req, 0, summary.body)
        /\ UNCHANGED <<users, food_entries, meal_plans, pending, today, fnVars>>

\* strptime(target_date, "%Y-%m-%d").date()
ParseDate(date_string) == date_string.iso

\* MealPlan(...) of lines 479-490 raises no ValidationError: the four lists
\* must be lists (the alphabet has none, so the keys must be absent) and the
\* totals numbers
PlanArgsValid(data) ==
    /\ \A k \in {"breakfast", "lunch", "dinner", "snacks"} : k \notin DOMAIN data
    /\ \A k \in {"total_calories", "total_protein", "total_carbs", "total_fat"} :
          IsFloat(Get(data, k, PyNum(0)))

\* meal_plan.dict() (lines 76-88, 479-490)
MealPlanDict(id, user_id, target_date, data) ==
    [id |-> id, user_id |-> user_id, date |-> ParseDate(target_date),
     breakfast |-> << >>, lunch |-> << >>, dinner |-> << >>, snacks |-> << >>,
     total_calories |-> Get(data, "total_calories", PyNum(0)).n,
     total_protein |-> Get(data, "total_protein", PyNum(0)).n,
     total_carbs |-> Get(data, "total_carbs", PyNum(0)).n,
     total_fat |-> Get(data, "total_fat", PyNum(0)).n]

\* db.meal_plans, had the plan of a profile and a date been replaced by a new
\* plan for the same profile and date
UpsertPlan(plans, doc) ==
    IF \E i \in 1..Len(plans) :
          plans[i].user_id = doc.user_id /\ plans[i].date = doc.date
    THEN [i \in 1..Len(plans) |->
             IF plans[i].user_id = doc.user_id /\ plans[i].date = doc.date
             THEN doc ELSE plans[i]]
    ELSE Append(plans, doc)

\* db.meal_plans.insert_one (line 493): one more document; nothing is looked up
InsertPlan(plans, doc) == Append(plans, doc)

\* generate_meal_plan, had it stored an empty plan when no JSON object can be
\* read from the answer
GenerateMealPlanWithPlaceholder(user_id, target_date, key_set, outcome) ==
    LET req == [user_id |-> user_id, target_date |-> target_date,
                key_set |-> key_set, outcome |-> outcome]
        response_text == Strip(outcome.text)
        start_idx == Find(response_text, LBrace)
        end_idx == RFind(response_text, RBrace) + 1
        parsed == JsonLoads(PySlice(response_text, start_idx, end_idx))
        data == IF start_idx # -1 /\ parsed.ok THEN parsed.obj ELSE EmptyDict
        doc == MealPlanDict(NewId(meal_plans), user_id, target_date, data)
        refused == ~HasId(users, user_id) \/ ~key_set
        failed == ~outcome.ok \/ ~PlanArgsValid(data)
    IN  /\ (~refused /\ ~failed) => Len(meal_plans) < MaxPlans
        /\ IF refused
           THEN /\ resp' = Response("generate_meal_plan", 500, req, 0, << >>)
                /\ UNCHANGED meal_plans
           ELSE IF failed
           THEN /\ resp' = Response("generate_meal_plan", 500, req, 1, << >>)
                /\ UNCHANGED meal_plans
           ELSE /\ meal_plans' = InsertPlan(meal_plans, doc)
                /\ resp' = Response("generate_meal_plan", 200, req, 1,
                                    [success |-> TRUE, meal_plan |-> doc,
                                     nutritional_notes |->
                                        Get(data, "nutritional_notes", PyStr(""))])
        /\ UNCHANGED <<users, food_entries, pending, today, fnVars>>

\* POST /meal-plan/{user_id} (lines 414-505).  json.loads is not guarded here:
\* its JSONDecodeError, like the HTTPException(404) of line 421, is caught by
\* the handler's except clause and answered with 500
GenerateMealPlan(user_id, target_date, key_set, outcome) ==
    LET req == [user_id |-> user_id, target_date |-> target_date,
                key_set |-> key_set, outcome |-> outcome]
        response_text == Strip(outcome.text)
        start_idx == Find(response_text, LBrace)
        end_idx == RFind(response_text, RBrace) + 1
        parsed == JsonLoads(PySlice(response_text, start_idx, end_idx))
        doc == MealPlanDict(NewId(meal_plans), user_id, target_date, parsed.obj)
        refused == ~HasId(users, user_id) \/ ~key_set
        failed == \/ ~outcome.ok
                  \/ ~(start_idx # -1 /\ end_idx # -1)
                  \/ ~parsed.ok
                  \/ ~PlanArgsValid(parsed.obj)
    IN  /\ (~refused /\ ~failed) => Len(meal_plans) < MaxPlans
        /\ IF refused
           THEN /\ resp' = Response("generate_meal_plan", 500, req, 0, << >>)
                /\ UNCHANGED meal_plans
           ELSE IF failed
           THEN /\ resp' = Response("generate_meal_plan", 500, req, 1, << >>)
                /\ UNCHANGED meal_plans
           ELSE /\ meal_plans' = InsertPlan(meal_plans, doc)
                /\ resp' = Response("generate_meal_plan", 200, req, 1,
                                    [success |-> TRUE, meal_plan |-> doc,
                                     nutritional_notes |->
                                        Get(parsed.obj, "nutritional_notes", PyStr(""))])
        /\ UNCHANGED <<users, food_entries, pending, today, fnVars>>

\* GET /meal-plans/{user_id} (lines 507-514): latest date first.  Plans of one
\* date keep their stored order
RECURSIVE SortByDateDesc(_, _)
SortByDateDesc(plans, day) ==
    IF day = 0 THEN << >>
    ELSE SelectSeq(plans, LAMBDA pl : pl.date = day) \o SortByDateDesc(plans, day - 1)

GetMealPlans(user_id) ==
    /\ resp' = Response("get_meal_plans", 200, [user_id |-> user_id], 0,
                        ToList(SortByDateDesc(FindByUser(meal_plans, user_id), MaxDay),
                               PlanListLimit))
    /\ UNCHANGED <<users, food_entries, meal_plans, pending, today, fnVars>>

\* GET /health (lines 517-519)
HealthCheck ==
    /\ resp' = Response("health_check", 200, << >>, 0, [status |-> "healthy"])
    /\ UNCHANGED <<users, food_entries, meal_plans, pending, today, fnVars>>

\* midnight passes: date.today() moves on
NextDay ==
    /\ today < MaxDay
    /\ today' = today + 1
    /\ UNCHANGED <<users, food_entries, meal_plans, pending, resp, fnVars>>


(***************************************************************************)
(* The extraction step on its own: every text up to MaxTextLen tokens      *)
(***************************************************************************)

MaxTextLen == 5

NormAlphabet ==
    {LBrace, RBrace, Colon, Blank, Str("calories"), Num(300), Word("x")}

TextsOfLen(n) == [1..n -> NormAlphabet]

\* longer answers of the shape the prompt asks for
SampleTexts ==
    { <<Word("Here"), Blank, LBrace, Str("food_name"), Colon, Str("pizza"), Comma,
        Blank, Str("calories"), Colon, Num(500), RBrace, Blank, Word("Enjoy")>>,
      <<Word("Note"), RBrace, LBrace, Str("calories"), Colon, Num(500), Comma,
        Str("detailed_breakdown"), Colon, LBrace, Str("note"), Colon, Null, RBrace,
        RBrace, LBrace, Word("end")>>,
      <<LBrace, Str("calories"), Colon, Num(500), Comma, RBrace>> }

Texts == UNION {TextsOfLen(n) : n \in 0..MaxTextLen} \cup SampleTexts

NotRun == [done |-> FALSE, raised |-> FALSE, value |-> EmptyDict]

NoResponse == [op |-> "none", status |-> 0, req |-> << >>, ai_calls |-> 0,
               body |-> << >>]

ApiInit ==
    /\ users = << >>
    /\ food_entries = << >>
    /\ meal_plans = << >>
    /\ pending = {}
    /\ resp = NoResponse
    /\ today = 1

NormInit ==
    /\ norm_text \in Texts
    /\ norm_result = NotRun
    /\ calc_args = << >>
    /\ calc_result = << >>
    /\ agg_args = << >>
    /\ agg_result = << >>
    /\ ApiInit

\* the extraction step runs on the answer
NormExtract ==
    /\ ~norm_result.done
    /\ norm_result' = [done |-> TRUE,
                       raised |-> ExtractAnalysis(norm_text).raised,
                       value |-> ExtractAnalysis(norm_text).value]
    /\ UNCHANGED <<apiVars, norm_text, calc_args, calc_result, agg_args, agg_result>>

NormNext == NormExtract

SpecNorm == NormInit /\ [][NormNext]_vars

(***************************************************************************)
(* Claims about the extraction step (checked under SpecNorm)               *)
(***************************************************************************)

HasTok(text, tok) == \E i \in 1..Len(text) : text[i] = tok

\* no '{', or no '}', or the slice from the first '{' to the last '}' is not
\* valid JSON (it is empty when the last '}' precedes the first '{')
Malformed(text) ==
    \/ ~HasTok(text, LBrace)
    \/ ~HasTok(text, RBrace)
    \/ ~JsonLoads(JsonSlice(Strip(text))).ok

IsFallbackRecord(v, text) ==
    /\ Get(v, "calories", PyNone) = PyNum(200)
    /\ Get(v, "protein", PyNone) = PyNum(10)
    /\ Get(v, "carbs", PyNone) = PyNum(20)
    /\ Get(v, "fat", PyNone) = PyNum(8)
    /\ Get(v, "fiber", PyNone) = PyNum(3)
    /\ Get(v, "sodium", PyNone) = PyNum(300)
    /\ Get(v, "sugar", PyNone) = PyNum(5)
    /\ Get(v, "serving_size", PyNone) = PyStr("1 serving")
    /\ Get(v, "confidence", PyNone) = PyDecimal("0.5")
    /\ Get(v, "detailed_breakdown", PyNone).t = "dict"
    /\ Get(v, "detailed_breakdown", PyNone).d = Strip(text)

\* C5: for every answer with no '{', or no '}', or whose slice from the first
\* '{' to the last '}' is not valid JSON, the extraction step raises nothing and
\* returns the fallback record (200, 10, 20, 8, 3, 300, 5, '1 serving', 0.5)
\* whose detailed_breakdown holds the answer's text.
C5_FallbackOnMalformed ==
    (norm_result.done /\ Malformed(norm_text)) =>
        /\ ~norm_result.raised
        /\ IsFallbackRecord(norm_result.value, norm_text)

\* C5 witness: the step has run on an answer whose last '}' precedes its first
\* '{', and on it returned the fallback record.
C5_Witness ==
    /\ norm_result.done
    /\ HasTok(norm_text, LBrace) /\ HasTok(norm_text, RBrace)
    /\ RFind(norm_text, RBrace) < Find(norm_text, LBrace)
    /\ IsFallbackRecord(norm_result.value, norm_text)

\* the spans i..j of text that are a well-formed JSON object
ObjectSpans(text) ==
    {sp \in (1..Len(text)) \X (1..Len(text)) :
        /\ sp[1] < sp[2]
        /\ text[sp[1]] = LBrace /\ text[sp[2]] = RBrace
        /\ JsonLoads(SubSeq(text, sp[1], sp[2])).ok}

\* those that are not inside another one
TopObjectSpans(text) ==
    {sp \in ObjectSpans(text) :
        \A other \in ObjectSpans(text) :
            (other[1] <= sp[1] /\ sp[2] <= other[2]) => other = sp}

\* text is commentary, one well-formed JSON object, commentary
OneObject(text) == Cardinality(TopObjectSpans(text)) = 1

TheObject(text) == CHOOSE sp \in TopObjectSpans(text) : TRUE

ReturnsTheObject(text) ==
    /\ ~norm_result.raised
    /\ norm_result.value = JsonLoads(SubSeq(text, TheObject(text)[1], TheObject(text)[2])).obj
    /\ ~IsFallbackRecord(norm_result.value, text)

\* the commentary before the object has no '{' and the commentary after it no '}'
BraceFreeCommentary(text) ==
    /\ \A i \in 1..(TheObject(text)[1] - 1) : text[i] # LBrace
    /\ \A i \in (TheObject(text)[2] + 1)..Len(text) : text[i] # RBrace

\* C6 as stated: for every answer that is one well-formed JSON object with any
\* commentary before and after it, the extraction step returns that object's
\* parsed content and not the fallback record.
C6_AnyCommentary ==
    (norm_result.done /\ OneObject(norm_text)) => ReturnsTheObject(norm_text)

\* C6 amended: for every answer that is one well-formed JSON object with
\* commentary before it that holds no '{' and commentary after it that holds no
\* '}', the extraction step returns that object's parsed content and not the
\* fallback record.
C6_BraceFreeCommentary ==
    (norm_result.done /\ OneObject(norm_text) /\ BraceFreeCommentary(norm_text))
        => ReturnsTheObject(norm_text)

\* C6 witness: the step has run on an object with members that has commentary
\* on both sides, and returned the object's content.
C6_Witness ==
    /\ norm_result.done
    /\ OneObject(norm_text) /\ BraceFreeCommentary(norm_text)
    /\ TheObject(norm_text)[1] > 1
    /\ TheObject(norm_text)[2] < Len(norm_text)
    /\ norm_text[1].t = "word" /\ norm_text[Len(norm_text)].t = "word"
    /\ "calories" \in DOMAIN norm_result.value
    /\ ReturnsTheObject(norm_text)

(***************************************************************************)
(* The calculators on their own                                            *)
(***************************************************************************)

Weights == {-10, 0, 30, 66, 68}
Heights == {0, 100, 165}
Ages == {28, 80}
Genders == {Male, <<"M", "a", "l", "e">>, <<"M", "A", "L", "E">>, Female,
            <<"o", "t", "h", "e", "r">>}
ActivityLevels == {"sedentary", "lightly_active", "moderately_active",
                   "very_active", "extra_active", "athlete", ""}
Goals == {"lose_weight", "maintain_weight", "gain_weight", "bulk"}

CalcInputs ==
    [weight : Weights, height : Heights, age : Ages, gender : Genders,
     activity_level : ActivityLevels, goal : Goals]

CalcNotRun == [done |-> FALSE, bmr |-> 0, daily_calories |-> 0]

CalcInit ==
    /\ calc_args \in CalcInputs
    /\ calc_result = CalcNotRun
    /\ norm_text = << >>
    /\ norm_result = NotRun
    /\ agg_args = << >>
    /\ agg_result = << >>
    /\ ApiInit

\* lines 244-245 and 274-275: the two calculators, one after the other
CalcRun ==
    /\ ~calc_result.done
    /\ calc_result' =
         LET bmr == calculate_bmr(calc_args.weight, calc_args.height,
                                  calc_args.age, calc_args.gender)
         IN  [done |-> TRUE, bmr |-> bmr,
              daily_calories |->
                 calculate_daily_calories(bmr, calc_args.activity_level, calc_args.goal)]
    /\ UNCHANGED <<apiVars, norm_text, norm_result, calc_args, agg_args, agg_result>>

CalcNext == CalcRun

SpecCalc == CalcInit /\ [][CalcNext]_vars

\* the activity factor the specification gives, in thousandths
SpecFactor(level) ==
    CASE level = "sedentary" -> 1200
      [] level = "lightly_active" -> 1375
      [] level = "moderately_active" -> 1550
      [] level = "very_active" -> 1725
      [] level = "extra_active" -> 1900
      [] OTHER -> 1200

SpecGoalShift(goal) ==
    CASE goal = "lose_weight" -> 0 - 50000000
      [] goal = "gain_weight" -> 50000000
      [] OTHER -> 0

\* (female, 28, 165 cm, 68 kg, moderately_active, lose_weight)
ExampleProfile ==
    [weight |-> 68, height |-> 165, age |-> 28, gender |-> Female,
     activity_level |-> "moderately_active", goal |-> "lose_weight"]

DailyCaloriesLaw ==
    /\ calc_result.daily_calories =
          calc_result.bmr * SpecFactor(calc_args.activity_level)
            + SpecGoalShift(calc_args.goal)
    /\ (calc_args.activity_level \notin DOMAIN activity_multipliers =>
          calc_result.daily_calories =
             calculate_daily_calories(calc_result.bmr, "sedentary", calc_args.goal))

\* C2 as stated: calculate_daily_calories returns bmr times the activity factor
\* (1.2 for an unrecognized level, as for sedentary), minus 500 for lose_weight,
\* plus 500 for gain_weight, unchanged for any other goal; and the example
\* profile's target is 1546.3875.
C2_ExampleAsStated ==
    calc_result.done =>
        /\ DailyCaloriesLaw
        /\ (calc_args = ExampleProfile => calc_result.daily_calories = 154638750)

\* C2 amended: the same law of calculate_daily_calories; the example profile's
\* basal metabolic rate is 1410.25 and its target is 1685.8875.
C2_DailyCalories ==
    calc_result.done =>
        /\ DailyCaloriesLaw
        /\ (calc_args = ExampleProfile =>
              /\ calc_result.bmr = 141025
              /\ calc_result.daily_calories = 168588750)

\* C2 witness: the calculators have run on the example profile.
C2_Witness ==
    /\ calc_result.done
    /\ calc_args = ExampleProfile
    /\ calc_result.daily_calories = 168588750

(***************************************************************************)
(* The whole API, on one day                                               *)
(***************************************************************************)

Init ==
    /\ ApiInit
    /\ norm_text = << >>
    /\ norm_result = NotRun
    /\ calc_args = << >>
    /\ calc_result = << >>
    /\ agg_args = << >>
    /\ agg_result = << >>

Next ==
    \/ \E user_data \in UserInputs : CreateUser(user_data)
    \/ \E user_id \in RequestIds : GetUser(user_id)
    \/ GetAllUsers
    \/ \E user_id \in RequestIds, user_data \in UserInputs :
          UpdateUserWrite(user_id, user_data)
    \/ \E request \in pending : UpdateUserRead(request)
    \/ \E upload \in Uploads, user_id \in RequestIds, meal_type \in MealTypes :
          AnalyzeFoodFromImage(upload.content_type, user_id, meal_type,
                               upload.provider.key_set, upload.provider.outcome)
    \/ \E user_id \in RequestIds, date_filter \in DateFilters :
          GetUserFoodEntries(user_id, date_filter)
    \/ \E user_id \in RequestIds, date_filter \in DateFilters :
          GetDailySummary(user_id, date_filter)
    \/ \E user_id \in RequestIds, target_date \in DateStrings,
          provider \in PlanProvider :
          GenerateMealPlan(user_id, target_date, provider.key_set, provider.outcome)
    \/ \E user_id \in RequestIds : GetMealPlans(user_id)
    \/ HealthCheck

Spec == Init /\ [][Next]_vars

(***************************************************************************)
(* The food diary across days: date.today() is read by the upload (the     *)
(* entry's day) and by the summary (the default date) and by nothing else  *)
(***************************************************************************)

DaysNext ==
    \/ \E user_data \in UserInputs : CreateUser(user_data)
    \/ \E user_id \in RequestIds, meal_type \in MealTypes :
          AnalyzeFoodFromImage(<<"image", "jpeg">>, user_id, meal_type, TRUE,
                               PlainAnswer)
    \/ \E user_id \in RequestIds, date_filter \in DateFilters :
          GetUserFoodEntries(user_id, date_filter)
    \/ \E user_id \in RequestIds, date_filter \in DateFilters :
          GetDailySummary(user_id, date_filter)
    \/ NextDay

SpecDays == Init /\ [][DaysNext]_vars

(***************************************************************************)
(* The profile store and the daily summary, with one kind of food upload   *)
(***************************************************************************)

ProfileNext ==
    \/ \E user_data \in UserInputs : CreateUser(user_data)
    \/ \E user_id \in RequestIds : GetUser(user_id)
    \/ GetAllUsers
    \/ \E user_id \in RequestIds, user_data \in UserInputs :
          UpdateUserWrite(user_id, user_data)
    \/ \E request \in pending : UpdateUserRead(request)
    \/ \E user_id \in RequestIds :
          AnalyzeFoodFromImage(<<"image", "jpeg">>, user_id, "breakfast", TRUE,
                               PlainAnswer)
    \/ \E user_id \in RequestIds, date_filter \in DateFilters :
          GetDailySummary(user_id, date_filter)

SpecProfile == Init /\ [][ProfileNext]_vars

(***************************************************************************)
(* The summary computation on its own: any entries a query may match       *)
(***************************************************************************)

MaxMatched == 2

AggMealTypes == {"breakfast", "lunch", "brunch"}

\* analysis records: the calories only (300), a pizza whose protein is null
\* (500), a feast (2000)
AggAnalyses ==
    { ExtractAnalysis(<<LBrace, Str("calories"), Colon, Num(300), RBrace>>).value,
      ExtractAnalysis(<<LBrace, Str("food_name"), Colon, Str("pizza"), Comma,
                        Str("calories"), Colon, Num(500), Comma,
                        Str("protein"), Colon, Null, RBrace>>).value,
      ExtractAnalysis(<<LBrace, Str("food_name"), Colon, Str("feast"), Comma,
                        Str("calories"), Colon, Num(2000), RBrace>>).value }

\* the sequences of n food entry documents of profile 1
RECURSIVE EntrySeqs(_)
EntrySeqs(n) ==
    IF n = 0 THEN {<< >>}
    ELSE {Append(es, FoodEntryDict(n, 1, m, B64Encode(ImageData), a, 1)) :
             es \in EntrySeqs(n - 1), m \in AggMealTypes, a \in AggAnalyses}

AggInputs ==
    [user : {NewUser(1, u) : u \in UserInputs},
     entries : UNION {EntrySeqs(n) : n \in 0..MaxMatched}]

AggNotRun == [done |-> FALSE, raised |-> FALSE, body |-> << >>]

AggInit ==
    /\ agg_args \in AggInputs
    /\ agg_result = AggNotRun
    /\ norm_text = << >>
    /\ norm_result = NotRun
    /\ calc_args = << >>
    /\ calc_result = << >>
    /\ ApiInit

\* lines 371-409 on the matched entries
AggRun ==
    /\ ~agg_result.done
    /\ agg_result' =
         LET summary == Summarize(agg_args.user,
                                  ToList(agg_args.entries, EntryListLimit),
                                  IsoFormat(1))
         IN  [done |-> TRUE, raised |-> summary.raised, body |-> summary.body]
    /\ UNCHANGED <<apiVars, norm_text, norm_result, calc_args, calc_result, agg_args>>

AggNext == AggRun

SpecAgg == AggInit /\ [][AggNext]_vars

(***************************************************************************)
(* Claims about the API                                                    *)
(***************************************************************************)

\* a step in which a handler of the given operation gives a response that
\* differs from the response before the step
Answered(op) ==
    /\ resp'.op = op
    /\ resp.op = op =>
          \/ resp'.status # resp.status
          \/ resp'.req # resp.req
          \/ (resp'.status = 200 /\ resp'.body # resp.body)

\* the target computed now from the attributes a profile document holds
FreshTarget(doc) ==
    calculate_daily_calories(
        calculate_bmr(doc.weight, doc.height, doc.age, doc.gender),
        doc.activity_level, doc.goal)

\* C1: in every reachable state of the profile store, under any interleaving
\* of create_user and update_user requests (concurrent updates of one profile
\* included), each stored profile's daily_calorie_target is the target computed
\* from that profile's current attributes.
C1_TargetFollowsAttributes ==
    \A i \in 1..Len(users) : users[i].daily_calorie_target = FreshTarget(users[i])

\* C1 witness: two updates of one profile with different attributes are both
\* between their update_one and their find_one.
C1_Witness ==
    /\ \E r1 \in pending, r2 \in pending :
          /\ r1.user_id = r2.user_id
          /\ r1.user_data.weight # r2.user_data.weight
          /\ HasId(users, r1.user_id)
    /\ C1_TargetFollowsAttributes

NotFoundOps == {"get_user", "update_user", "get_daily_summary", "generate_meal_plan"}

\* C3: a request of get_user, update_user, get_daily_summary or
\* generate_meal_plan that names a profile id not in the profile store is
\* answered with 404, leaves the three stores unchanged, and makes no call of
\* the AI provider.
C3_UnknownIdIs404 ==
    [][ ( /\ \E op \in NotFoundOps : Answered(op)
          /\ ~HasId(users, resp'.req.user_id) ) =>
        /\ resp'.status = 404
        /\ resp'.ai_calls = 0
        /\ UNCHANGED <<users, food_entries, meal_plans>> ]_vars

\* C4: analyze_food_from_image with an upload whose declared content type does
\* not start with 'image/' fails with status 400, without a call of the AI
\* provider and without persisting a FoodEntry.
C4_NonImageIs400 ==
    [][ ( /\ Answered("analyze_food")
          /\ resp'.req.content_type # None
          /\ resp'.req.content_type[1] # "image" ) =>
        /\ resp'.status = 400
        /\ resp'.ai_calls = 0
        /\ UNCHANGED food_entries ]_vars

\* the stored entries of a profile whose day is the given one
StoredOn(entries, user_id, day) ==
    SelectSeq(entries, LAMBDA e : e.user_id = user_id /\ e.entry_date = day)

\* the sum of a field over entries, an entry without a value counting zero
RECURSIVE TotalOf(_, _)
TotalOf(entries, field) ==
    IF entries = << >> THEN 0
    ELSE (IF EntryGet(Head(entries), field) = None THEN 0
          ELSE EntryGet(Head(entries), field)[1])
         + TotalOf(Tail(entries), field)

\* C7: for an existing profile and a date, get_daily_summary succeeds and
\* reports for calories, protein, carbs, fat and fiber the sum of the field
\* over the stored food entries of that profile with that date (an entry
\* without a value counting zero), and their number as entries_count.
C7_SummarySums ==
    [][ ( /\ Answered("get_daily_summary")
          /\ HasId(users', resp'.req.user_id) ) =>
        LET es == StoredOn(food_entries', resp'.req.user_id, ParseDate(resp'.req.date))
        IN  /\ resp'.status = 200
            /\ resp'.body.consumed.calories = TotalOf(es, "calories")
            /\ resp'.body.consumed.protein = TotalOf(es, "protein")
            /\ resp'.body.consumed.carbs = TotalOf(es, "carbs")
            /\ resp'.body.consumed.fat = TotalOf(es, "fat")
            /\ resp'.body.consumed.fiber = TotalOf(es, "fiber")
            /\ resp'.body.entries_count = Len(es) ]_vars

\* C8: in every successful summary, remaining.calories is
\* max(0, daily_target - consumed.calories): never negative, and 0 whenever the
\* consumed calories reach the target.
C8_RemainingClamped ==
    (agg_result.done /\ ~agg_result.raised) =>
        LET b == agg_result.body
            left == b.daily_target - b.consumed.calories * 100000
        IN  /\ b.remaining.calories = (IF left > 0 THEN left ELSE 0)
            /\ b.remaining.calories >= 0
            /\ (b.consumed.calories * 100000 >= b.daily_target =>
                   b.remaining.calories = 0)

\* C8 witness: a summary of two entries whose calories exceed a positive
\* target, with 0 remaining.
C8_Witness ==
    /\ agg_result.done /\ ~agg_result.raised
    /\ Len(agg_args.entries) = 2
    /\ agg_result.body.daily_target > 0
    /\ agg_result.body.consumed.calories * 100000 > agg_result.body.daily_target
    /\ agg_result.body.remaining.calories = 0

\* a summary of no entries: zero totals, no entry counted, four empty buckets
EmptySummary(body) ==
    /\ body.consumed = [calories |-> 0, protein |-> 0, carbs |-> 0, fat |-> 0,
                        fiber |-> 0]
    /\ body.entries_count = 0
    /\ body.meals = [breakfast |-> << >>, lunch |-> << >>, dinner |-> << >>,
                     snack |-> << >>]

\* a get_daily_summary response is given for a stored profile and a day on
\* which that profile has no stored entry
SummaryOfEmptyDay ==
    /\ Answered("get_daily_summary")
    /\ HasId(users', resp'.req.user_id)
    /\ StoredOn(food_entries', resp'.req.user_id, ParseDate(resp'.req.date)) = << >>

\* C9 as stated: for every profile create_user or update_user can store, the
\* summary of a date without food entries of that profile has zero totals,
\* entries_count 0, four empty buckets, and remaining.calories equal to the
\* profile's daily_calorie_target.
C9_RemainingIsTarget ==
    [][ SummaryOfEmptyDay =>
        /\ resp'.status = 200
        /\ EmptySummary(resp'.body)
        /\ resp'.body.remaining.calories =
              FindOne(users', resp'.req.user_id).daily_calorie_target ]_vars

\* C9 amended: the same, with remaining.calories equal to
\* max(0, daily_calorie_target): the target when it is not negative, else 0.
C9_RemainingIsClampedTarget ==
    [][ SummaryOfEmptyDay =>
        /\ resp'.status = 200
        /\ EmptySummary(resp'.body)
        /\ resp'.body.daily_target =
              FindOne(users', resp'.req.user_id).daily_calorie_target
        /\ resp'.body.remaining.calories =
              (IF resp'.body.daily_target > 0 THEN resp'.body.daily_target ELSE 0) ]_vars

\* C9 witness: a summary for a stored profile with a negative target, on a day
\* without entries of that profile, reports 0 remaining.
C9_Witness ==
    /\ resp.op = "get_daily_summary" /\ resp.status = 200
    /\ HasId(users, resp.req.user_id)
    /\ StoredOn(food_entries, resp.req.user_id, ParseDate(resp.req.date)) = << >>
    /\ food_entries # << >>
    /\ resp.body.daily_target < 0
    /\ resp.body.daily_target = FindOne(users, resp.req.user_id).daily_calorie_target
    /\ resp.body.remaining.calories = 0

\* a stored nutrient or serving size as the Python value it is
AsPyNum(opt) == IF opt = None THEN PyNone ELSE PyNum(opt[1])
AsPyStr(opt) == IF opt = None THEN PyNone ELSE PyStr(opt[1])

\* C10: when the upload is an image and the provider call succeeds,
\* analyze_food_from_image answers success = true and appends exactly one
\* FoodEntry for the given profile id and meal slot, whose fields are the values
\* of the analysis record, a missing key replaced by its default, and which
\* embeds the base64 image and the whole analysis record.
C10_UploadStored ==
    [][ ( /\ Answered("analyze_food")
          /\ resp'.req.content_type # None
          /\ resp'.req.content_type[1] = "image"
          /\ resp'.req.key_set
          /\ resp'.req.outcome.ok ) =>
        LET a == ExtractAnalysis(resp'.req.outcome.text).value
            e == food_entries'[Len(food_entries')]
        IN  /\ resp'.status = 200
            /\ resp'.body.success
            /\ food_entries' = Append(food_entries, resp'.body.food_entry)
            /\ e.user_id = resp'.req.user_id
            /\ e.meal_type = resp'.req.meal_type
            /\ PyStr(e.food_name) = Get(a, "food_name", PyStr("Unknown food"))
            /\ PyNum(e.calories) = Get(a, "calories", PyNum(200))
            /\ AsPyNum(e.protein) = Get(a, "protein", PyNum(10))
            /\ AsPyNum(e.carbs) = Get(a, "carbs", PyNum(20))
            /\ AsPyNum(e.fat) = Get(a, "fat", PyNum(8))
            /\ AsPyNum(e.fiber) = Get(a, "fiber", PyNum(3))
            /\ AsPyNum(e.sodium) = Get(a, "sodium", PyNum(300))
            /\ AsPyNum(e.sugar) = Get(a, "sugar", PyNum(5))
            /\ AsPyStr(e.serving_size) = Get(a, "serving_size", PyStr("1 serving"))
            /\ e.image_base64 = B64Encode(ImageData)
            /\ e.analysis_details = a ]_vars

(***************************************************************************)
(* Uploads on their own: every content type and every provider outcome     *)
(***************************************************************************)

UploadNext ==
    \/ \E user_data \in UserInputs : CreateUser(user_data)
    \/ \E upload \in Uploads, user_id \in RequestIds, meal_type \in MealTypes :
          AnalyzeFoodFromImage(upload.content_type, user_id, meal_type,
                               upload.provider.key_set, upload.provider.outcome)
    \/ \E user_id \in RequestIds, date_filter \in DateFilters :
          GetUserFoodEntries(user_id, date_filter)

SpecUpload == Init /\ [][UploadNext]_vars

\* C11: when the provider key is not configured or the provider call fails,
\* analyze_food_from_image answers 500, has called the provider at most once
\* (never when the key is missing), and leaves the food entry store as it was.
C11_ProviderFailureIs500 ==
    [][ ( /\ Answered("analyze_food")
          /\ (~resp'.req.key_set \/ ~resp'.req.outcome.ok) ) =>
        /\ resp'.status = 500
        /\ resp'.ai_calls <= 1
        /\ (~resp'.req.key_set => resp'.ai_calls = 0)
        /\ UNCHANGED food_entries ]_vars

\* C11 witness: an image upload whose provider call failed was answered 500
\* after one call, the store holding an earlier entry.
C11_Witness ==
    /\ resp.op = "analyze_food" /\ resp.status = 500
    /\ resp.req.content_type = <<"image", "jpeg">>
    /\ resp.req.key_set /\ ~resp.req.outcome.ok
    /\ resp.ai_calls = 1
    /\ Len(food_entries) = 1

(***************************************************************************)
(* Meal plans on their own: more answers of the provider                   *)
(***************************************************************************)

\* answers from which no JSON object can be read: prose only, a '{' never
\* closed, a '}' before the only '{', an object with a value missing
UnreadablePlanAnswers ==
    { Answer(<<Word("Sorry")>>),
      Answer(<<Word("Plan"), LBrace, Str("total_calories"), Colon, Num(1800)>>),
      Answer(<<RBrace, Blank, LBrace, Str("total_calories")>>),
      Answer(<<LBrace, Str("total_calories"), Colon, RBrace>>) }

\* the key is configured and the provider answers
PlanProviderWide == {WithKey(a) : a \in PlanAnswers \cup UnreadablePlanAnswers}

\* the profile of the test suite: a plan request reads the profile, no plan
\* record depends on it
SarahInput == CHOOSE user_data \in UserInputs : user_data.name = "Sarah"

PlanNext ==
    \/ CreateUser(SarahInput)
    \/ \E user_id \in RequestIds, target_date \in DateStrings,
          provider \in PlanProviderWide :
          GenerateMealPlan(user_id, target_date, provider.key_set, provider.outcome)
    \/ \E user_id \in RequestIds : GetMealPlans(user_id)

SpecPlan == Init /\ [][PlanNext]_vars

\* C12: for an existing profile, when the answer to generate_meal_plan holds
\* no '{', or no '}', or the slice from the first '{' to the last '}' is not
\* valid JSON, the request is answered 500 with no plan in the response, and
\* the meal plan store is left as it was.
C12_UnreadablePlanIs500 ==
    [][ ( /\ Answered("generate_meal_plan")
          /\ HasId(users, resp'.req.user_id)
          /\ resp'.req.key_set /\ resp'.req.outcome.ok
          /\ Malformed(resp'.req.outcome.text) ) =>
        /\ resp'.status = 500
        /\ resp'.body = << >>
        /\ UNCHANGED meal_plans ]_vars

\* C12 witness: with a plan already stored, an answer that has both braces but
\* no valid JSON between them was answered 500.
C12_Witness ==
    /\ resp.op = "generate_meal_plan" /\ resp.status = 500
    /\ HasId(users, resp.req.user_id)
    /\ resp.req.key_set /\ resp.req.outcome.ok
    /\ HasTok(resp.req.outcome.text, LBrace)
    /\ HasTok(resp.req.outcome.text, RBrace)
    /\ Find(resp.req.outcome.text, LBrace) < RFind(resp.req.outcome.text, RBrace)
    /\ Malformed(resp.req.outcome.text)
    /\ Len(meal_plans) = 1

\* C13: every successful generate_meal_plan adds exactly one MealPlan, with an
\* id no stored plan has, and leaves the plans stored before as they were, also
\* when a plan of the same profile and date is stored already.
C13_PlanAppended ==
    [][ ( /\ Answered("generate_meal_plan")
          /\ resp'.status = 200 ) =>
        /\ Len(meal_plans') = Len(meal_plans) + 1
        /\ SubSeq(meal_plans', 1, Len(meal_plans)) = meal_plans
        /\ meal_plans'[Len(meal_plans')] = resp'.body.meal_plan
        /\ resp'.body.meal_plan.user_id = resp'.req.user_id
        /\ resp'.body.meal_plan.date = ParseDate(resp'.req.target_date)
        /\ \A i \in 1..Len(meal_plans) :
              meal_plans[i].id # resp'.body.meal_plan.id ]_vars

\* C13 witness: two successful generations for one profile and one date have
\* left two records with different ids.
C13_Witness ==
    /\ resp.op = "generate_meal_plan" /\ resp.status = 200
    /\ Len(meal_plans) = 2
    /\ meal_plans[1].user_id = meal_plans[2].user_id
    /\ meal_plans[1].date = meal_plans[2].date
    /\ meal_plans[1].id # meal_plans[2].id
    /\ meal_plans[2] = resp.body.meal_plan

\* a gender that equals 'male' when the case of its letters is ignored
SpecIsMale(gender) ==
    /\ Len(gender) = 4
    /\ gender[1] \in {"m", "M"} /\ gender[2] \in {"a", "A"}
    /\ gender[3] \in {"l", "L"} /\ gender[4] \in {"e", "E"}

\* C14: calculate_bmr returns 10*weight + 6.25*height - 5*age + 5 for a gender
\* that is 'male' in any case of letters and 10*weight + 6.25*height - 5*age
\* - 161 for every other gender, so the result for 'male' is the result for
\* another gender plus 166 (all in hundredths of a kcal).
C14_BmrFormula ==
    calc_result.done =>
        LET base == 1000 * calc_args.weight + 625 * calc_args.height
                    - 500 * calc_args.age
        IN  /\ SpecIsMale(calc_args.gender) => calc_result.bmr = base + 500
            /\ ~SpecIsMale(calc_args.gender) =>
                  /\ calc_result.bmr = base - 16100
                  /\ calculate_bmr(calc_args.weight, calc_args.height,
                                   calc_args.age, Male) = calc_result.bmr + 16600

\* C14 witness: the calculator has run on the gender 'MALE' and returned the
\* male result, 10*68 + 6.25*165 - 5*28 + 5 = 1576.25.
C14_Witness ==
    /\ calc_result.done
    /\ calc_args.gender = <<"M", "A", "L", "E">>
    /\ calc_args.weight = 68 /\ calc_args.height = 165 /\ calc_args.age = 28
    /\ calc_result.bmr = 157625

\* C15: update_user on an id that the store holds succeeds whatever the
\* submitted attributes are (the stored ones included) and returns the profile
\* with the submitted attributes and the target computed from them.
C15_UpdateOfStoredIdSucceeds ==
    [][ ( /\ Answered("update_user")
          /\ HasId(users, resp'.req.user_id) ) =>
        /\ resp'.status = 200
        /\ resp'.body = NewUser(resp'.req.user_id, resp'.req.user_data) ]_vars

ReadOps == {"get_user", "get_all_users", "get_user_food_entries",
            "get_daily_summary", "get_meal_plans", "health_check"}

\* every record of the collection is, after the step, where it was and as it was
Kept(before, after) ==
    /\ Len(after) >= Len(before)
    /\ \A i \in 1..Len(before) : after[i] = before[i]

MealSlots == {"breakfast", "lunch", "dinner", "snack"}

\* C17: once analyze_food_from_image has stored an entry for a profile on a
\* day, a summary of that profile for that day (named, or the current day by
\* default) succeeds, counts at least the stored entries of that day, has at
\* least their calories, and lists each of them in the bucket of its meal slot
\* when the slot is breakfast, lunch, dinner or snack.
C17_SummaryIncludesStoredEntry ==
    [][ ( /\ Answered("get_daily_summary")
          /\ HasId(users', resp'.req.user_id) ) =>
        LET es == StoredOn(food_entries', resp'.req.user_id,
                           ParseDate(resp'.req.date))
        IN  es # << >> =>
              /\ resp'.status = 200
              /\ resp'.body.entries_count >= Len(es)
              /\ resp'.body.entries_count >= 1
              /\ resp'.body.consumed.calories >= TotalOf(es, "calories")
              /\ \A i \in 1..Len(es) :
                    es[i].meal_type \in MealSlots =>
                       \E j \in 1..Len(resp'.body.meals[es[i].meal_type]) :
                          resp'.body.meals[es[i].meal_type][j].id = es[i].id ]_vars

\* the number of buckets of a summary that list the entry
BucketsListing(body, entry) ==
    Cardinality({slot \in MealSlots :
                    \E j \in 1..Len(body.meals[slot]) :
                       body.meals[slot][j].id = entry.id})

\* C18: in a successful summary an entry whose meal slot is breakfast, lunch,
\* dinner or snack is listed in the bucket of its slot and in no other, an
\* entry of any other slot is listed in no bucket, every matched entry is
\* counted in entries_count and in the calories, and the sizes of the four
\* buckets sum to at most entries_count, to entries_count exactly when every
\* matched entry has one of the four slots.
C18_BucketsBySlot ==
    (agg_result.done /\ ~agg_result.raised) =>
        LET es == agg_args.entries
            b == agg_result.body
            listed == Len(b.meals.breakfast) + Len(b.meals.lunch)
                      + Len(b.meals.dinner) + Len(b.meals.snack)
        IN  /\ \A i \in 1..Len(es) :
                  IF es[i].meal_type \in MealSlots
                  THEN /\ BucketsListing(b, es[i]) = 1
                       /\ \E j \in 1..Len(b.meals[es[i].meal_type]) :
                             b.meals[es[i].meal_type][j] = es[i]
                  ELSE BucketsListing(b, es[i]) = 0
            /\ b.entries_count = Len(es)
            /\ b.consumed.calories = TotalOf(es, "calories")
            /\ listed <= b.entries_count
            /\ (listed = b.entries_count) <=>
                  (\A i \in 1..Len(es) : es[i].meal_type \in MealSlots)

\* C18 witness: a successful summary of a breakfast and a brunch: one entry
\* listed, two counted, the calories of both summed.
C18_Witness ==
    /\ agg_result.done /\ ~agg_result.raised
    /\ Len(agg_args.entries) = 2
    /\ agg_args.entries[1].meal_type = "breakfast"
    /\ agg_args.entries[2].meal_type = "brunch"
    /\ Len(agg_result.body.meals.breakfast) = 1
    /\ Len(agg_result.body.meals.snack) = 0
    /\ agg_result.body.entries_count = 2
    /\ agg_result.body.consumed.calories = 2300

\* C19: in every reachable state each stored FoodEntry and each stored MealPlan
\* has the id of a stored profile as its user_id.
C19_RecordsOwnedByStoredProfile ==
    /\ \A i \in 1..Len(food_entries) : HasId(users, food_entries[i].user_id)
    /\ \A i \in 1..Len(meal_plans) : HasId(users, meal_plans[i].user_id)

====
